---- MODULE Spec2Model ----
(***************************************************************************)
(* The game-state machine of src/snake.py (class Snake): one tick of the   *)
(* pyxel update callback is one step.  The grid is scaled down from the    *)
(* 40 x 50 cells of the source to 2 x 10 (2 columns, 3 playable rows under *)
(* the score bar), so that the state space is finite and small; START is   *)
(* scaled with it, from (5, 5 + HEIGHT_SCORE) to (0, 1 + HEIGHT_SCORE),    *)
(* and stays inside the playable rectangle.  Everything else is as in the  *)
(* source.                                                                 *)
(***************************************************************************)
EXTENDS Integers, Sequences, FiniteSets, TLC

\* ------------------------------------------------------------- constants
\* WIDTH = 40 in the source; the grid is scaled down to 2 columns.
WIDTH == 2
\* HEIGHT = 50 in the source; scaled down to 3 playable rows under the bar.
HEIGHT == 10
\* HEIGHT_SCORE = pyxel.FONT_HEIGHT, which is 6.
HEIGHT_SCORE == 6

\* ---------------------------------------------------------------- bounds
\* Ticks are explored while the body has at most MaxLen cells ...
MaxLen == 5
\* ... and the score is at most MaxScore.
MaxScore == 4

Point(x, y) == [x |-> x, y |-> y]

UP    == Point(0, -1)
DOWN  == Point(0, 1)
RIGHT == Point(1, 0)
LEFT  == Point(-1, 0)

\* START = Point(5, 5 + HEIGHT_SCORE) in the source; scaled with the grid.
START == Point(0, 1 + HEIGHT_SCORE)

\* The attribute popped_point does not exist before the first update_snake.
NoPoint == Point(-9, -9)

\* The keys the update callback polls (btn for the arrows and Q, btnp for
\* R and T).
Keys == {"UP", "DOWN", "LEFT", "RIGHT", "Q", "R", "T"}

VARIABLES
    direction,     \* self.direction
    snake,         \* self.snake, head first
    death,         \* self.death
    score,         \* self.score
    apple,         \* self.apple
    popped_point,  \* self.popped_point
    music,         \* TRUE while the music tracks (channels 1-3) are playing
    quit           \* TRUE once the process has been terminated

vars == <<direction, snake, death, score, apple, popped_point, music, quit>>

Range(s) == {s[i] : i \in 1..Len(s)}

\* Samples with x drawn by randint(0, 0).
Samples_first_column == {Point(0, y) : y \in (HEIGHT_SCORE + 1)..(HEIGHT - 1)}

\* randint(0, WIDTH - 1) x randint(HEIGHT_SCORE + 1, HEIGHT - 1)
Samples == {Point(x, y) : x \in 0..(WIDTH - 1), y \in (HEIGHT_SCORE + 1)..(HEIGHT - 1)}

\* The game object as a record.  Besides the attributes it carries what one
\* call of update leaves behind for an observer of that call: sounds, the
\* Music calls made, in order; moved, self.snake as update_snake left it
\* (<< >> when the call did not move the snake); snake_pixels, the local
\* snake_pixels of the last generate_apple call; stepped, the attributes as
\* check_apple left them, before the Q, R and T tests of update (as the call
\* found them when the game was dead).
Snapshot(sn, de, sc, ap) == [snake |-> sn, death |-> de, score |-> sc, apple |-> ap]

Self == [direction |-> direction, snake |-> snake, death |-> death,
         score |-> score, apple |-> apple, popped_point |-> popped_point,
         music |-> music, quit |-> quit,
         sounds |-> << >>, moved |-> << >>, snake_pixels |-> {},
         stepped |-> Snapshot(snake, death, score, apple)]

\* ------------------------------------------------------------ operations

\* Music.start_music
start_music(self) == [self EXCEPT !.sounds = Append(@, "start_music"), !.music = TRUE]

\* Music.stop_music
stop_music(self) == [self EXCEPT !.sounds = Append(@, "stop_music"), !.music = FALSE]

\* Music.sfx_apple
sfx_apple(self) == [self EXCEPT !.sounds = Append(@, "sfx_apple")]

\* Music.sfx_death
sfx_death(self) == [self EXCEPT !.sounds = Append(@, "sfx_death")]

\* generate_apple with every cell of the playable rectangle accepted.
generate_apple_anywhere(self) ==
    {[self EXCEPT !.snake_pixels = Range(self.snake), !.apple = a] : a \in Samples}

\* Snake.generate_apple: the set of states the sampling loop can end in, one
\* for each sample outside snake_pixels (the loop starts from the head, which
\* is in snake_pixels, so at least one sample is drawn); empty when every
\* sample is in snake_pixels and the loop never ends.
generate_apple(self) ==
    LET pixels == Range(self.snake)
    IN  {[self EXCEPT !.snake_pixels = pixels, !.apple = a] :
            a \in {p \in Samples : p \notin pixels}}

\* reset that keeps the score.
reset_keep_score(self) ==
    LET fresh == [self EXCEPT !.direction = RIGHT, !.snake = <<START>>,
                              !.death = FALSE]
    IN  {start_music(s) : s \in generate_apple(fresh)}

\* Snake.reset
reset(self) ==
    LET fresh == [self EXCEPT !.direction = RIGHT, !.snake = <<START>>,
                              !.death = FALSE, !.score = 0]
    IN  {start_music(s) : s \in generate_apple(fresh)}

\* update_direction without the opposite-direction tests.
update_direction_unguarded(self, held) ==
    IF      "UP"    \in held THEN [self EXCEPT !.direction = UP]
    ELSE IF "DOWN"  \in held THEN [self EXCEPT !.direction = DOWN]
    ELSE IF "LEFT"  \in held THEN [self EXCEPT !.direction = LEFT]
    ELSE IF "RIGHT" \in held THEN [self EXCEPT !.direction = RIGHT]
    ELSE self

\* update_direction with the LEFT and RIGHT tests ahead of UP and DOWN.
update_direction_reordered(self, held) ==
    IF      "LEFT"  \in held /\ self.direction # RIGHT THEN [self EXCEPT !.direction = LEFT]
    ELSE IF "RIGHT" \in held /\ self.direction # LEFT  THEN [self EXCEPT !.direction = RIGHT]
    ELSE IF "UP"    \in held /\ self.direction # DOWN  THEN [self EXCEPT !.direction = UP]
    ELSE IF "DOWN"  \in held /\ self.direction # UP    THEN [self EXCEPT !.direction = DOWN]
    ELSE self

\* Snake.update_direction
update_direction(self, held) ==
    IF      "UP"    \in held /\ self.direction # DOWN  THEN [self EXCEPT !.direction = UP]
    ELSE IF "DOWN"  \in held /\ self.direction # UP    THEN [self EXCEPT !.direction = DOWN]
    ELSE IF "LEFT"  \in held /\ self.direction # RIGHT THEN [self EXCEPT !.direction = LEFT]
    ELSE IF "RIGHT" \in held /\ self.direction # LEFT  THEN [self EXCEPT !.direction = RIGHT]
    ELSE self

\* update_snake that does not pop the tail.
update_snake_nopop(self) ==
    LET old_head == self.snake[1]
        new_head == Point(old_head.x + self.direction.x, old_head.y + self.direction.y)
        pushed   == <<new_head>> \o self.snake
    IN  [self EXCEPT !.snake = pushed, !.popped_point = pushed[Len(pushed)],
                     !.moved = pushed]

\* update_snake that remembers the new tail instead of the removed one.
update_snake_new_tail(self) ==
    LET old_head == self.snake[1]
        new_head == Point(old_head.x + self.direction.x, old_head.y + self.direction.y)
        pushed   == <<new_head>> \o self.snake
        left     == SubSeq(pushed, 1, Len(pushed) - 1)
    IN  [self EXCEPT !.snake = left, !.popped_point = left[Len(left)],
                     !.moved = left]

\* Snake.update_snake
update_snake(self) ==
    LET old_head == self.snake[1]
        new_head == Point(old_head.x + self.direction.x, old_head.y + self.direction.y)
        pushed   == <<new_head>> \o self.snake
        left     == SubSeq(pushed, 1, Len(pushed) - 1)
    IN  [self EXCEPT !.snake = left, !.popped_point = pushed[Len(pushed)],
                     !.moved = left]

\* death_event without the stop_music call.
death_event_music_on(self) == [sfx_death(self) EXCEPT !.death = TRUE]

\* Snake.death_event
death_event(self) == [stop_music(sfx_death(self)) EXCEPT !.death = TRUE]

\* check_death with the top bound tested as y < HEIGHT_SCORE.
check_death_bar(self) ==
    LET head == self.snake[1]
    IN  IF head.x < 0 \/ head.y < HEIGHT_SCORE \/ head.x >= WIDTH \/ head.y >= HEIGHT
        THEN death_event(self)
        ELSE IF Len(self.snake) # Cardinality(Range(self.snake))
        THEN death_event(self)
        ELSE self

\* check_death with the right bound tested as x > WIDTH.
check_death_wide(self) ==
    LET head == self.snake[1]
    IN  IF head.x < 0 \/ head.y <= HEIGHT_SCORE \/ head.x > WIDTH \/ head.y >= HEIGHT
        THEN death_event(self)
        ELSE IF Len(self.snake) # Cardinality(Range(self.snake))
        THEN death_event(self)
        ELSE self

\* Snake.check_death
check_death(self) ==
    LET head == self.snake[1]
    IN  IF head.x < 0 \/ head.y <= HEIGHT_SCORE \/ head.x >= WIDTH \/ head.y >= HEIGHT
        THEN death_event(self)
        ELSE IF Len(self.snake) # Cardinality(Range(self.snake))
        THEN death_event(self)
        ELSE self

\* check_apple that scores without re-appending the popped coordinate.
check_apple_nogrow(self) ==
    IF self.snake[1] = self.apple
    THEN generate_apple(sfx_apple([self EXCEPT !.score = @ + 1]))
    ELSE {self}

\* Snake.check_apple
check_apple(self) ==
    IF self.snake[1] = self.apple
    THEN generate_apple(sfx_apple([self EXCEPT !.score = @ + 1,
                                               !.snake = Append(@, self.popped_point)]))
    ELSE {self}

\* The four steps of update with the test of self.death left out.
alive_steps_always(self, held) ==
    {[s EXCEPT !.stepped = Snapshot(s.snake, s.death, s.score, s.apple)] :
        s \in check_apple(check_death(update_snake(update_direction(self, held))))}

\* The part of Snake.update that runs while not self.death.
alive_steps(self, held) ==
    IF ~self.death
    THEN {[s EXCEPT !.stepped = Snapshot(s.snake, s.death, s.score, s.apple)] :
            s \in check_apple(check_death(update_snake(update_direction(self, held))))}
    ELSE {self}

\* if pyxel.btn(pyxel.KEY_Q): pyxel.quit()  -- the process exits there.
quit_step(self, pressed) ==
    IF "Q" \in pressed THEN [self EXCEPT !.quit = TRUE] ELSE self

\* if pyxel.btnp(pyxel.KEY_R): self.reset()
reset_step(self, pressed) ==
    IF ~self.quit /\ "R" \in pressed THEN reset(self) ELSE {self}

\* The T test pushing the popped coordinate at the head end.
growth_step_left(self, pressed) ==
    IF ~self.quit /\ "T" \in pressed
    THEN [self EXCEPT !.snake = <<self.popped_point>> \o @, !.score = @ + 1]
    ELSE self

\* The T test placed inside the block that runs while not self.death.
growth_step_alive_only(self, pressed) ==
    IF ~self.quit /\ ~self.death /\ "T" \in pressed
    THEN [self EXCEPT !.snake = Append(@, self.popped_point), !.score = @ + 1]
    ELSE self

\* The T test without the score += 1.
growth_step_no_score(self, pressed) ==
    IF ~self.quit /\ "T" \in pressed
    THEN [self EXCEPT !.snake = Append(@, self.popped_point)]
    ELSE self

\* if pyxel.btnp(pyxel.KEY_T): append popped_point, score += 1
growth_step(self, pressed) ==
    IF ~self.quit /\ "T" \in pressed
    THEN [self EXCEPT !.snake = Append(@, self.popped_point), !.score = @ + 1]
    ELSE self

\* update with the R test ahead of the Q test.
update_reset_first(self, pressed) ==
    LET s1 == alive_steps(self, pressed)
        s2 == UNION {reset_step(s, pressed) : s \in s1}
        s3 == {quit_step(s, pressed) : s \in s2}
    IN  {growth_step(s, pressed) : s \in s3}

\* Snake.update: the states one call of the callback can end in.
update(self, pressed) ==
    LET s1 == alive_steps(self, pressed)
        s2 == {quit_step(s, pressed) : s \in s1}
        s3 == UNION {reset_step(s, pressed) : s \in s2}
    IN  {growth_step(s, pressed) : s \in s3}

\* --------------------------------------------------------- state machine

\* Snake.__init__: the state when pyxel.run starts calling update.
Init ==
    \E s \in reset([direction |-> RIGHT, snake |-> << >>, death |-> FALSE,
                    score |-> 0, apple |-> START, popped_point |-> NoPoint,
                    music |-> FALSE, quit |-> FALSE,
                    sounds |-> << >>, moved |-> << >>, snake_pixels |-> {},
                    stepped |-> Snapshot(<< >>, FALSE, 0, START)]) :
        /\ direction = s.direction
        /\ snake = s.snake
        /\ death = s.death
        /\ score = s.score
        /\ apple = s.apple
        /\ popped_point = s.popped_point
        /\ music = s.music
        /\ quit = s.quit

\* One frame in which pyxel calls Snake.update.
Update ==
    /\ ~quit
    /\ Len(snake) <= MaxLen
    /\ score <= MaxScore
    /\ \E pressed \in SUBSET Keys :
        \E s \in update(Self, pressed) :
            /\ direction' = s.direction
            /\ snake' = s.snake
            /\ death' = s.death
            /\ score' = s.score
            /\ apple' = s.apple
            /\ popped_point' = s.popped_point
            /\ music' = s.music
            /\ quit' = s.quit

\* pyxel.init(..., quit_key=pyxel.KEY_Q): the engine itself ends the process
\* on a frame in which Q is pressed, before it calls update.
QuitKey ==
    /\ ~quit
    /\ quit' = TRUE
    /\ UNCHANGED <<direction, snake, death, score, apple, popped_point, music>>

Next == Update \/ QuitKey

Spec == Init /\ [][Next]_vars

\* ------------------------------------------- the loop of generate_apple

\* The bodies generate_apple is called with: sequences of cells of the
\* playable rectangle, pairwise distinct except that the last cell may be
\* there twice (growth appends popped_point, debug growth may append it
\* again).
Bodies ==
    LET cells == {Point(x, y) : x \in 0..(WIDTH - 1),
                                y \in (HEIGHT_SCORE + 1)..(HEIGHT - 1)}
        Distinct(b) == \A i, j \in 1..Len(b) : i # j => b[i] # b[j]
    IN  {b \in UNION {[1..n -> cells] : n \in 1..(Cardinality(cells) + 1)} :
            \/ Distinct(b)
            \/ /\ Len(b) >= 2
               /\ b[Len(b)] = b[Len(b) - 1]
               /\ Distinct(SubSeq(b, 1, Len(b) - 1))}

\* generate_apple entered: snake_pixels = set(self.snake) and
\* self.apple = self.snake[0] are done, the while test comes next.
InitApple ==
    /\ snake \in Bodies
    /\ apple = snake[1]
    /\ direction = RIGHT
    /\ death = FALSE
    /\ score = Len(snake) - 1
    /\ popped_point = snake[Len(snake)]
    /\ music = TRUE
    /\ quit = FALSE

\* One pass of the while loop in which randint yields the cell p: the test
\* self.apple in snake_pixels held, self.apple = Point(x, y).
Draw(p) ==
    /\ apple \in Range(snake)
    /\ apple' = p
    /\ UNCHANGED <<direction, snake, death, score, popped_point, music, quit>>

NextApple == \E p \in Samples : Draw(p)

\* randint is fair: a cell that can be drawn for ever is drawn.
SpecApple ==
    InitApple /\ [][NextApple]_vars /\ \A p \in Samples : WF_vars(Draw(p))

\* ---------------------------------------------------------------- claims
\* The vocabulary of the specification document, stated independently of
\* the operations above.

\* inBounds(c): 0 <= c.x < W and scoreBarHeight < c.y < H.
InBounds(c) == /\ 0 <= c.x /\ c.x < WIDTH
               /\ HEIGHT_SCORE < c.y /\ c.y < HEIGHT

\* containsDuplicate(): two positions of the body hold equal coordinates.
ContainsDuplicate(body) ==
    \E i, j \in 1..Len(body) : i < j /\ body[i] = body[j]

Opposite(d) == Point(0 - d.x, 0 - d.y)

KeyOf(d) == CASE d = UP -> "UP" [] d = DOWN -> "DOWN"
              [] d = LEFT -> "LEFT" [] d = RIGHT -> "RIGHT"

Arrows == {"UP", "DOWN", "LEFT", "RIGHT"}

Plus(c, d) == Point(c.x + d.x, c.y + d.y)

Emitted(s, sound) == \E i \in 1..Len(s.sounds) : s.sounds[i] = sound

\* The commands of a tick that reach their statement: Q ends the process
\* before the R and T tests.
ResetApplied(pressed)  == "R" \in pressed /\ "Q" \notin pressed
GrowthApplied(pressed) == "T" \in pressed /\ "Q" \notin pressed

Pressable == SUBSET Keys

\* A move is fatal when it leaves the head out of bounds or the body with
\* two equal coordinates.
Fatal(body) == ~InBounds(body[1]) \/ ContainsDuplicate(body)

\* C1: on every tick evaluated while Alive the snake moves, and after the
\* move the game is Dead (death_event has run) if and only if the new head
\* is out of bounds or the body holds two equal coordinates; otherwise it
\* is still Alive.  The flag keeps that value to the end of the tick unless
\* the tick also applies a reset.
C1_DeathIffFatal ==
    (~quit /\ ~death) =>
        \A pressed \in Pressable : \A s \in update(Self, pressed) :
            /\ s.moved # << >>
            /\ Len(s.moved) = Len(snake)
            /\ s.stepped.death <=> Fatal(s.moved)
            /\ Emitted(s, "sfx_death") <=> Fatal(s.moved)
            /\ ~ResetApplied(pressed) => (s.death <=> Fatal(s.moved))

\* A living snake from which one tick dies with the head on the score-bar
\* row y = scoreBarHeight and another tick stays alive.
C1_Witness ==
    /\ ~quit /\ ~death
    /\ \E pressed \in Pressable : \E s \in update(Self, pressed) :
          /\ s.death /\ s.moved[1].y = HEIGHT_SCORE
          /\ ~ContainsDuplicate(s.moved)
    /\ \E pressed \in Pressable : \E s \in update(Self, pressed) :
          /\ ~s.death /\ ~Emitted(s, "start_music")

\* C2: on any Alive tick, whatever keys are held, the direction the snake
\* moves in (the direction after the direction update) is never the opposite
\* of the direction before it; when the only arrow held is the opposite one
\* the direction is unchanged and the snake advances one cell in it.
C2_NoReversal ==
    (~quit /\ ~death) =>
        \A pressed \in Pressable : \A s \in update(Self, pressed) :
            LET head == snake[1]
                went == Point(s.moved[1].x - head.x, s.moved[1].y - head.y)
            IN  /\ went \in {UP, DOWN, LEFT, RIGHT}
                /\ went # Opposite(direction)
                /\ ~ResetApplied(pressed) => s.direction = went
                /\ (pressed \cap Arrows = {KeyOf(Opposite(direction))}) =>
                      /\ went = direction
                      /\ s.moved = <<Plus(head, direction)>>
                                     \o SubSeq(snake, 1, Len(snake) - 1)

\* A living snake of two cells or more with only the opposite arrow held.
C2_Witness ==
    /\ ~quit /\ ~death /\ Len(snake) >= 2
    /\ \E s \in update(Self, {KeyOf(Opposite(direction))}) :
          /\ ~s.death
          /\ s.direction = direction
          /\ s.snake[1] = Plus(snake[1], direction)

\* C3: on an Alive tick whose new head equals the apple coordinate and whose
\* move is not fatal, the apple check adds exactly 1 to the score, re-appends
\* the coordinate popped by this tick's move (the body is the new head
\* followed by the whole previous body) and places a new apple on a cell
\* that is not in the grown body.  The R and T commands of the same tick act
\* on that result.
C3_AppleEaten ==
    (~quit /\ ~death) =>
        \A pressed \in Pressable : \A s \in update(Self, pressed) :
            (s.moved[1] = apple /\ ~Fatal(s.moved)) =>
                LET grown == <<s.moved[1]>> \o snake
                IN  /\ Emitted(s, "sfx_apple")
                    /\ s.popped_point = snake[Len(snake)]
                    /\ s.stepped.score = score + 1
                    /\ s.stepped.snake = grown
                    /\ s.stepped.apple \notin Range(grown)
                    /\ InBounds(s.stepped.apple)
                    /\ (~ResetApplied(pressed) /\ ~GrowthApplied(pressed)) =>
                          /\ s.snake = grown
                          /\ s.score = score + 1
                          /\ s.apple = s.stepped.apple

\* A snake of two cells or more eats: a tick without commands ends with the
\* score one higher and the body one longer.
C3_Witness ==
    /\ ~quit /\ ~death /\ Len(snake) >= 2
    /\ \E held \in SUBSET Arrows : \E s \in update(Self, held) :
          /\ s.moved[1] = apple
          /\ ~s.death
          /\ s.score = score + 1
          /\ Len(s.snake) = Len(snake) + 1

\* C4: immediately after every apple placement (the one of the constructor,
\* of a reset, of an eaten apple) the apple is not a member of the body as it
\* is at that moment and lies in the playable rectangle.
C4_ApplePlacement ==
    /\ InBounds(apple)
    /\ (score = 0 /\ snake = <<START>>) => apple # START
    /\ ~quit =>
        \A pressed \in Pressable : \A s \in update(Self, pressed) :
            /\ Emitted(s, "sfx_apple") =>
                  /\ s.stepped.apple \notin Range(s.stepped.snake)
                  /\ InBounds(s.stepped.apple)
                  /\ ~ResetApplied(pressed) =>
                        /\ s.snake_pixels = Range(s.stepped.snake)
                        /\ s.apple = s.stepped.apple
            /\ Emitted(s, "start_music") =>
                  /\ s.snake_pixels = {START}
                  /\ s.apple \notin s.snake_pixels
                  /\ InBounds(s.apple)

\* A tick that places an apple after eating one, with a body of three cells
\* or more to avoid, and a tick that places one by reset.
C4_Witness ==
    /\ ~quit /\ ~death
    /\ \E pressed \in Pressable : \E s \in update(Self, pressed) :
          /\ Emitted(s, "sfx_apple") /\ ~Emitted(s, "start_music")
          /\ Cardinality(s.snake_pixels) >= 3
    /\ \E pressed \in Pressable : \E s \in update(Self, pressed) :
          Emitted(s, "start_music")

\* C5 as stated: on every tick evaluated while Alive the body length at the
\* end of the tick is the length before it or one more, never more than one
\* more.
C5_Original ==
    [][~death => (Len(snake') = Len(snake) \/ Len(snake') = Len(snake) + 1)]_vars

\* C5 amended: on every tick evaluated while Alive in which no reset is
\* applied, the length at the end of the tick is the length before it, plus
\* 1 if an apple was eaten, plus 1 if the debug-growth command was applied;
\* a tick with both grows the body by 2.  A tick that applies a reset ends
\* with length 1, or 2 with debug growth.
C5_LengthChange ==
    (~quit /\ ~death) =>
        \A pressed \in Pressable : \A s \in update(Self, pressed) :
            LET ate  == IF Emitted(s, "sfx_apple") THEN 1 ELSE 0
                grew == IF GrowthApplied(pressed) THEN 1 ELSE 0
            IN  /\ Len(s.moved) = Len(snake)
                /\ ~ResetApplied(pressed) => Len(s.snake) = Len(snake) + ate + grew
                /\ ResetApplied(pressed) => Len(s.snake) = 1 + grew

\* A tick that eats an apple and applies debug growth: two cells longer.
C5_Witness ==
    /\ ~quit /\ ~death
    /\ \E pressed \in Pressable : \E s \in update(Self, pressed) :
          /\ Emitted(s, "sfx_apple") /\ GrowthApplied(pressed)
          /\ Len(s.snake) = Len(snake) + 2

\* C6, on the ticks in which only arrow keys are held (no reset, no debug
\* growth, no quit in the tick itself): on the tick in which the move is
\* fatal the state is Dead at the end of the tick, and the score and the
\* apple are what they were before it.
C6_Original ==
    (~quit /\ ~death) =>
        \A held \in SUBSET Arrows : \A s \in update(Self, held) :
            Fatal(s.moved) => (s.death /\ s.score = score /\ s.apple = apple)

\* C7: once the game is Dead it is Dead at the end of every tick in which
\* reset is not pressed, whatever keys are held; such a tick does not move
\* the snake, change the direction, run the death check (no death sound, no
\* music stop) or the apple check (no apple sound, the apple stays); and the
\* game is Alive again only after a tick that applies a reset.
C7_DeadIsTerminal ==
    (~quit /\ death) =>
        \A pressed \in Pressable : \A s \in update(Self, pressed) :
            /\ s.moved = << >>
            /\ ~Emitted(s, "sfx_death") /\ ~Emitted(s, "stop_music")
            /\ ~Emitted(s, "sfx_apple")
            /\ "R" \notin pressed =>
                  /\ s.death
                  /\ s.direction = direction
                  /\ s.apple = apple
                  /\ s.popped_point = popped_point
                  /\ SubSeq(s.snake, 1, Len(snake)) = snake
            /\ ~s.death => ("R" \in pressed /\ Emitted(s, "start_music"))

\* A dead game with arrows held and no reset, and the same game reset.
C7_Witness ==
    /\ ~quit /\ death
    /\ \E s \in update(Self, {"UP", "LEFT"}) : s.death /\ s.snake = snake
    /\ \E s \in update(Self, {"R"}) : ~s.death

\* C8 as stated: after the transition to Dead the body, the apple and the
\* score keep their values on every later tick until a reset.
C8_Original ==
    [][(death /\ death') =>
          (snake' = snake /\ apple' = apple /\ score' = score)]_vars

\* C8 amended: after the transition to Dead the apple keeps its value on
\* every later tick until a reset is applied, and so do the body and the
\* score on the ticks that do not apply the debug growth; a tick that
\* applies it appends the popped coordinate to the body of the dead game and
\* adds 1 to its score.
C8_TerminalSnapshot ==
    (~quit /\ death) =>
        \A pressed \in Pressable : \A s \in update(Self, pressed) :
            ~ResetApplied(pressed) =>
                /\ s.apple = apple
                /\ s.death
                /\ IF GrowthApplied(pressed)
                   THEN s.snake = Append(snake, popped_point) /\ s.score = score + 1
                   ELSE s.snake = snake /\ s.score = score

\* A dead game of three cells or more, with and without the debug growth.
C8_Witness ==
    /\ ~quit /\ death /\ Len(snake) >= 3
    /\ \E s \in update(Self, {"T", "DOWN"}) : Len(s.snake) = Len(snake) + 1
    /\ \E s \in update(Self, {"DOWN"}) : s.snake = snake /\ s.score = score

\* C9 as stated: at the end of any tick in which reset is pressed the score
\* is 0, the body is the start coordinate alone, the game is Alive, the
\* direction is Right and the apple is a playable cell other than the start.
C9_Original ==
    ~quit =>
        \A pressed \in Pressable : \A s \in update(Self, pressed) :
            "R" \in pressed =>
                /\ s.score = 0
                /\ s.snake = <<START>>
                /\ ~s.death
                /\ s.direction = RIGHT
                /\ InBounds(s.apple) /\ s.apple # START

\* C9 amended: at the end of any tick in which a reset is applied (reset
\* pressed and quit not held), whether the game was Alive or Dead, the game
\* is Alive, the direction is Right and the apple is a playable cell other
\* than the start; the score is 0 and the body is the start coordinate alone
\* unless debug growth is pressed in the same tick, and then the body is the
\* start coordinate followed by the last popped coordinate and the score is
\* 1.
C9_Reset ==
    ~quit =>
        \A pressed \in Pressable : \A s \in update(Self, pressed) :
            ResetApplied(pressed) =>
                /\ ~s.death
                /\ s.direction = RIGHT
                /\ s.music
                /\ InBounds(s.apple) /\ s.apple # START
                /\ IF "T" \in pressed
                   THEN s.snake = <<START, s.popped_point>> /\ s.score = 1
                   ELSE s.snake = <<START>> /\ s.score = 0

\* A dead game with a score is reset, alone and together with the debug
\* growth.
C9_Witness ==
    /\ ~quit /\ death /\ score >= 2 /\ direction # RIGHT
    /\ \E s \in update(Self, {"R"}) :
          s.score = 0 /\ ~s.death /\ s.snake = <<START>> /\ s.direction = RIGHT
    /\ \E s \in update(Self, {"R", "T"}) :
          s.score = 1 /\ ~s.death /\ s.snake = <<START, popped_point>>

\* C10 as stated: when reset and quit are both asserted in a tick the game
\* is reset and the process is not terminated in that tick.
C10_Original ==
    ~quit =>
        \A pressed \in Pressable : \A s \in update(Self, pressed) :
            ({"Q", "R"} \subseteq pressed) =>
                (~s.quit /\ Emitted(s, "start_music"))

\* C10 amended: when reset and quit are both asserted in a tick, quit wins:
\* the process is terminated at the quit test and the reset is not applied
\* (nor the debug growth): the game is left as the four steps of the tick
\* left it.
C10_QuitWins ==
    ~quit =>
        \A pressed \in Pressable : \A s \in update(Self, pressed) :
            ({"Q", "R"} \subseteq pressed) =>
                /\ s.quit
                /\ ~Emitted(s, "start_music")
                /\ Snapshot(s.snake, s.death, s.score, s.apple) = s.stepped

\* Reset and quit asserted together on a game with a score: the process
\* ends and the score stands.
C10_Witness ==
    /\ ~quit /\ score >= 2
    /\ \E s \in update(Self, {"Q", "R"}) : s.quit /\ s.score = score


\* C11: in every reachable state in which the game is Alive (the end of a
\* tick, apple growth and debug growth applied), the coordinates of the body
\* are pairwise distinct.
C11_Original == ~death => ~ContainsDuplicate(snake)

\* C12: on an Alive tick with any subset of the four arrow keys held, the
\* direction the snake moves in is the first of Up, Down, Left, Right that
\* is held and is not the opposite of the current direction, and the current
\* direction when no held key passes; it is the direction at the end of the
\* tick unless a reset is applied.
C12_Precedence ==
    [] ((~quit /\ ~death) =>
        \A pressed \in Pressable : \A s \in update(Self, pressed) :
            LET order  == <<UP, DOWN, LEFT, RIGHT>>
                passes == {i \in 1..4 : /\ KeyOf(order[i]) \in pressed
                                        /\ order[i] # Opposite(direction)}
                chosen == IF passes = {} THEN direction
                          ELSE order[CHOOSE i \in passes : \A j \in passes : i <= j]
            IN  /\ s.moved[1] = Plus(snake[1], chosen)
                /\ ~ResetApplied(pressed) => s.direction = chosen)

\* The snake heads Down with Up, Left and Right held: Up is refused, Down is
\* not held, Left is taken ahead of Right.
C12_Witness ==
    /\ ~quit /\ ~death /\ direction = DOWN /\ Len(snake) >= 2
    /\ \E s \in update(Self, {"UP", "LEFT", "RIGHT"}) :
          s.direction = LEFT /\ s.moved[1] = Plus(snake[1], LEFT)

\* C13: the debug-growth command acts on every tick in which it fires,
\* Alive or Dead: the coordinate most recently popped by a move (the tail
\* this tick's move removed when the tick moved, the remembered one
\* otherwise) is appended at the tail and the score goes up by exactly 1,
\* with no apple needed and the head left where it was.
C13_DebugGrowth ==
    [] (~quit =>
        \A pressed \in Pressable : \A s \in update(Self, pressed) :
            GrowthApplied(pressed) =>
                LET before == IF ResetApplied(pressed)
                              THEN Snapshot(<<START>>, FALSE, 0, s.apple)
                              ELSE s.stepped
                    popped == IF death THEN popped_point ELSE snake[Len(snake)]
                IN  /\ popped # NoPoint
                    /\ s.popped_point = popped
                    /\ s.snake = Append(before.snake, popped)
                    /\ s.snake[1] = before.snake[1]
                    /\ s.score = before.score + 1
                    /\ s.apple = before.apple
                    /\ s.death = before.death)

\* Debug growth on a dead game of three cells or more, with no arrow held.
C13_Witness ==
    /\ ~quit /\ death /\ Len(snake) >= 3
    /\ \E s \in update(Self, {"T"}) :
          /\ s.death
          /\ s.snake = Append(snake, popped_point)
          /\ s.score = score + 1

\* C14: in every reachable state every body coordinate other than the head
\* lies inside the playable rectangle, and so does the head while the game
\* is Alive; a coordinate outside it is the head of a dead snake, and a dead
\* snake whose head is inside it holds two equal coordinates.
C14_BodyInBounds ==
    /\ \A i \in 2..Len(snake) : InBounds(snake[i])
    /\ ~death => InBounds(snake[1])
    /\ death => (~InBounds(snake[1]) \/ ContainsDuplicate(snake))

\* A snake of three cells or more dead with its head out of bounds.
C14_Witness ==
    death /\ Len(snake) >= 3 /\ ~InBounds(snake[1]) /\ ~ContainsDuplicate(snake)

\* C15: the move of an Alive tick is geometric: the body after it is the new
\* head (old head plus the direction) followed by the previous body without
\* its last element, the removed element is remembered as the popped
\* coordinate, and the length is unchanged; for a body of one cell the
\* popped coordinate is the old head.
C15_Move ==
    [] ((~quit /\ ~death) =>
        \A pressed \in Pressable : \A s \in update(Self, pressed) :
            /\ \E d \in {UP, DOWN, LEFT, RIGHT} :
                  /\ ~ResetApplied(pressed) => d = s.direction
                  /\ s.moved = <<Plus(snake[1], d)>> \o SubSeq(snake, 1, Len(snake) - 1)
            /\ Len(s.moved) = Len(snake)
            /\ s.popped_point = snake[Len(snake)]
            /\ Len(snake) = 1 => s.popped_point = snake[1])

\* A living snake of three cells or more moves and stays alive without
\* eating: same length, the old tail remembered.
C15_Witness ==
    /\ ~quit /\ ~death /\ Len(snake) >= 3
    /\ snake[Len(snake)] # snake[Len(snake) - 1]
    /\ \E held \in SUBSET Arrows : \E s \in update(Self, held) :
          /\ ~s.death /\ ~Emitted(s, "sfx_apple")
          /\ s.snake[2] = snake[1]
          /\ s.popped_point = snake[Len(snake)]


\* C16: apple placement ends, under fair sampling, whenever a cell of the
\* playable rectangle is not on the body, and never ends when the body
\* covers every playable cell: the loop then keeps drawing, the apple stays
\* on the body and nothing else changes (no fallback, no error).
C16_PlacementTermination ==
    LET Covered == \A x \in 0..(WIDTH - 1) : \A y \in 0..(HEIGHT - 1) :
                       InBounds(Point(x, y)) => Point(x, y) \in Range(snake)
    IN  /\ [] (Covered => (apple \in Range(snake) /\ ENABLED NextApple))
        /\ (~Covered) ~> (apple \notin Range(snake) /\ ~ENABLED NextApple)
        /\ [] (~death /\ ~quit /\ music)

\* The loop has ended for a body of four cells or more with a doubled tail.
C16_Witness ==
    /\ Len(snake) >= 4
    /\ snake[Len(snake)] = snake[Len(snake) - 1]
    /\ apple \notin Range(snake)
    /\ InBounds(apple)
    /\ ~ENABLED NextApple

\* C17: in every reachable state, Alive or Dead, the score equals the body
\* length minus one.
C17_ScoreIsLengthMinusOne == score = Len(snake) - 1

\* A tick that eats an apple and applies debug growth: two cells longer, two
\* points more.
C17_Witness ==
    /\ ~quit /\ ~death /\ Len(snake) >= 2 /\ score = Len(snake) - 1
    /\ \E held \in SUBSET Arrows : \E s \in update(Self, held \cup {"T"}) :
          /\ Emitted(s, "sfx_apple")
          /\ Len(s.snake) = Len(snake) + 2
          /\ s.score = score + 2

\* C18: in every reachable state in which the game is Alive (the end of a
\* tick, resets and debug growth applied), the apple is on no coordinate of
\* the snake body.
C18_Original == ~death => apple \notin Range(snake)

\* C19: a snake of at most four cells never dies by running into itself:
\* every tick that turns such a snake Dead has moved its head out of bounds.
C19_Original ==
    (~quit /\ ~death /\ Len(snake) <= 4) =>
        \A pressed \in Pressable : \A s \in update(Self, pressed) :
            s.stepped.death => ~InBounds(s.moved[1])

\* C20: the music is playing exactly when the game is Alive; a tick calls
\* start_music exactly when it applies a reset, and calls sfx_death and
\* stop_music, once each, exactly when its alive steps turn the game Dead,
\* never on a tick that starts Dead.
C20_Audio ==
    [] ( /\ music <=> ~death
         /\ ~quit =>
            \A pressed \in Pressable : \A s \in update(Self, pressed) :
                LET Count(sound) ==
                        Cardinality({i \in 1..Len(s.sounds) : s.sounds[i] = sound})
                    died == ~death /\ s.stepped.death
                IN  /\ s.music <=> ~s.death
                    /\ Count("sfx_death") = IF died THEN 1 ELSE 0
                    /\ Count("stop_music") = IF died THEN 1 ELSE 0
                    /\ Count("start_music") = IF ResetApplied(pressed) THEN 1 ELSE 0
                    /\ death => (~Emitted(s, "sfx_death") /\ ~Emitted(s, "stop_music")) )

\* A snake of three cells or more that dies on this tick with one death
\* sound, and the same state with the music restarted when R is pressed too.
C20_Witness ==
    /\ ~quit /\ ~death /\ music /\ Len(snake) >= 3
    /\ \E held \in SUBSET Arrows :
          /\ \E s \in update(Self, held) :
                /\ s.death /\ ~s.music
                /\ s.sounds = <<"sfx_death", "stop_music">>
          /\ \E s \in update(Self, held \cup {"R"}) :
                /\ ~s.death /\ s.music
                /\ s.sounds = <<"sfx_death", "stop_music", "start_music">>

====
